---- MODULE Spec2Model ----
(***************************************************************************)
(* The video dashboard of 3cr-frontend/src/App.js as a state machine: the   *)
(* React state of App and of the Add/Edit modal, the requests in flight     *)
(* (nothing is cancelled or sequenced, so they complete in any order), and  *)
(* the backend the requests go to.                                          *)
(*                                                                          *)
(* A handler is one action: the handler body, the re-render its state       *)
(* updates cause and the effects that re-render runs (useEffect on          *)
(* fetchVideos / fetchFilterCounts) happen in the same step.  A function    *)
(* called from a handler reads the state of the render the handler was      *)
(* created in, i.e. the unprimed variables.  Every await is a suspension    *)
(* point: the continuation is a separate action taken when the response     *)
(* arrives.                                                                 *)
(*                                                                          *)
(* Text is a sequence of one-character strings, so that trim, toLowerCase   *)
(* and includes are computed and not assumed.                               *)
(***************************************************************************)
EXTENDS Integers, Sequences, FiniteSets, TLC

\* ------------------------------------------------------------------ bounds
\* user events (clicks, key strokes, submits) in one run
MaxOps == 3
\* requests that may be in flight when a handler that issues requests starts
MaxInFlight == 2
\* records created through the Add modal in one run
MaxCreated == 1

\* ---------------------------------------------------------------- constants
\* App.js line 9 has 1000; the model keeps the role of the constant and
\* scales it so that a server of five records has three pages.
PAGE_LIMIT == 2

\* null (cursor); record identifiers are positive
Null == 0
\* a key that is missing from an object (filterCounts = {})
Undefined == -1

\* ------------------------------------------------------------------- text
Min(S) == CHOOSE m \in S : \A n \in S : m <= n
Max(S) == CHOOSE m \in S : \A n \in S : m >= n

LowerChar(c) == IF c = "A" THEN "a" ELSE IF c = "B" THEN "b" ELSE c

toLowerCase(s) == [i \in 1..Len(s) |-> LowerChar(s[i])]

trim(s) ==
  LET ink == {i \in 1..Len(s) : s[i] # " "}
  IN IF ink = {} THEN <<>> ELSE SubSeq(s, Min(ink), Max(ink))

includes(s, t) ==
  \E i \in 0..(Len(s) - Len(t)) : \A j \in 1..Len(t) : s[i + j] = t[j]

\* the texts a user types into the search box or a filter box
Texts == {<<>>, <<" ">>, <<"A">>}

SearchFields == {"title", "description", "transcriptText", "search"}
FilterFields == {"title", "description", "transcriptText"}

\* --------------------------------------------------------------- records
FIELDS ==
  {"Id", "title", "description", "publishedAt", "viewCount", "sourceUrl",
   "transcriptText"}

Video(id, t, d, tr) ==
  [_id |-> id, Id |-> <<"v">>, title |-> t, description |-> d,
   publishedAt |-> <<>>, viewCount |-> <<>>, sourceUrl |-> <<>>,
   transcriptText |-> tr]

EmptyFilters == [title |-> <<>>, description |-> <<>>, transcriptText |-> <<>>]
ZeroCounts == [titleDocs |-> 0, descDocs |-> 0, transDocs |-> 0, totalDocs |-> 0]
EmptyCounts ==
  [titleDocs |-> Undefined, descDocs |-> Undefined, transDocs |-> Undefined,
   totalDocs |-> Undefined]

\* ---------------------------------------------------------------- backend
\* The records the backend holds when the page is opened, in _id order.
InitDb ==
  << Video(1, <<"a">>, <<"b">>, <<>>),
     Video(2, <<"B">>, <<>>, <<"a">>),
     Video(3, <<"A", "b">>, <<>>, <<>>),
     Video(4, <<"b">>, <<"a">>, <<>>),
     Video(5, <<>>, <<>>, <<"B">>) >>

Contains(text, needle) ==
  \E i \in 0..(Len(text) - Len(needle)) :
    \A j \in 1..Len(needle) : LowerChar(text[i + j]) = LowerChar(needle[j])

\* the backend's filter: case-insensitive substring match on every given
\* parameter
ServerMatches(v, p) ==
  /\ p.title = <<>> \/ Contains(v.title, p.title)
  /\ p.description = <<>> \/ Contains(v.description, p.description)
  /\ p.transcriptText = <<>> \/ Contains(v.transcriptText, p.transcriptText)
  /\ \/ p.search = <<>>
     \/ IF p.search_field = "search"
        THEN \/ Contains(v.title, p.search)
             \/ Contains(v.description, p.search)
             \/ Contains(v.transcriptText, p.search)
        ELSE Contains(v[p.search_field], p.search)

ServerCounts(d, search) ==
  LET n(f) == Len(SelectSeq(d, LAMBDA v : Contains(v[f], search)))
  IN [titleDocs |-> n("title"), descDocs |-> n("description"),
      transDocs |-> n("transcriptText"),
      totalDocs |->
        Len(SelectSeq(d, LAMBDA v : \/ Contains(v.title, search)
                                    \/ Contains(v.description, search)
                                    \/ Contains(v.transcriptText, search)))]

\* GET videos: the batch after the cursor, the cursor of the next batch (null
\* when there is none), the count of all matches and the per-field counts
\* (withCounts: whether the response carries filter_counts)
ServerList(d, p, withCounts) ==
  LET matched == SelectSeq(d, LAMBDA v : ServerMatches(v, p))
      rest == SelectSeq(matched, LAMBDA v : v._id > p.last_id)
      batch == SubSeq(rest, 1, IF Len(rest) < PAGE_LIMIT THEN Len(rest) ELSE PAGE_LIMIT)
  IN [data |-> batch,
      next_cursor |-> IF Len(rest) > PAGE_LIMIT THEN batch[Len(batch)]._id ELSE Null,
      estimated_count |-> Len(matched),
      filter_counts |->
        IF withCounts THEN ServerCounts(d, p.search) ELSE EmptyCounts,
      has_counts |-> withCounts]

InDb(d, id) == \E i \in 1..Len(d) : d[i]._id = id

\* DELETE videos/:id and PUT videos/:id on the backend's records
ServerDelete(d, id) == SelectSeq(d, LAMBDA v : v._id # id)
ServerPut(d, id, form) ==
  [n \in 1..Len(d) |->
     IF d[n]._id = id
     THEN [k \in DOMAIN d[n] |-> IF k \in DOMAIN form THEN form[k] ELSE d[n][k]]
     ELSE d[n]]

\* --------------------------------------------------------------- the state
VARIABLES
  videos, loading, nextCursor, searchText, searchField, filters,
  estimatedCount, filterCounts, tempSearchText, appliedFilters, page,
  totalPages, showAddModal, showEditModal, videoToEdit,
  inflight,   \* the requests awaiting their response, in the order issued
  db,         \* the backend's records
  created,    \* how many records the backend has created
  hist,       \* the user events so far, in order
  failed,     \* whether a request has failed
  last        \* the handler or continuation that ran last (a continuation: with
              \* the place its request had in inflight)

vars ==
  <<videos, loading, nextCursor, searchText, searchField, filters,
    estimatedCount, filterCounts, tempSearchText, appliedFilters, page,
    totalPages, showAddModal, showEditModal, videoToEdit, inflight, db,
    created, hist, failed, last>>

\* the HTML the transcript editor (VisualEditor) holds
VARIABLES content

allVars == <<vars, content>>

queryVars == <<searchText, searchField, filters, tempSearchText, appliedFilters>>
listVars == <<videos, nextCursor, estimatedCount, totalPages>>
modalVars == <<showAddModal, showEditModal, videoToEdit>>
serverVars == <<db, created>>

\* ---------------------------------------------------------------- requests
NoForm == [k \in FIELDS |-> <<>>]

Request(kind, params, id, form, buf, target) ==
  [kind |-> kind, params |-> params, id |-> id, form |-> form, buf |-> buf,
   target |-> target,
   \* bookkeeping of a page walk: the list it started from, the batches it
   \* has received, the cursor the last response (or the state) gave it
   pre |-> buf, got |-> <<>>, seen |-> params.last_id,
   \* and of the state the walk started in: videos, nextCursor, the number of
   \* user events so far and of requests then in flight
   v0 |-> <<>>, c0 |-> Null, started |-> 0, others |-> 0]

Params(f, text, field, cursor) ==
  [title |-> f.title, description |-> f.description,
   transcriptText |-> f.transcriptText, search |-> text,
   search_field |-> field, last_id |-> cursor]

NoParams == Params(EmptyFilters, <<>>, "title", Null)

\* fetchVideos: the GET it sends for the given render's filters and query
ListRequest(f, text, field) ==
  Request("list", Params(f, text, field, Null), 0, <<>>, <<>>, 0)

\* fetchFilterCounts: the GET it sends, none for a blank query
CountsRequests(text) ==
  IF trim(text) = <<>>
  THEN <<>>
  ELSE << Request("counts", Params(EmptyFilters, text, "search", Null), 0,
                  <<>>, <<>>, 0) >>

Without(s, i) == SubSeq(s, 1, i - 1) \o SubSeq(s, i + 1, Len(s))

Act(op, arg) == [op |-> op, arg |-> arg]

\* ------------------------------------------------------------------- Init
\* After the first render and its effects: fetchVideos has sent its request,
\* fetchFilterCounts has found the query blank and zeroed the counts.
Init ==
  /\ videos = <<>>
  /\ loading = TRUE
  /\ nextCursor = Null
  /\ searchText = <<>>
  /\ searchField = "title"
  /\ filters = EmptyFilters
  /\ estimatedCount = 0
  /\ filterCounts = ZeroCounts
  /\ tempSearchText = <<>>
  /\ appliedFilters = <<>>
  /\ page = 1
  /\ totalPages = 1
  /\ showAddModal = FALSE
  /\ showEditModal = FALSE
  /\ videoToEdit = <<>>
  /\ inflight = << ListRequest(EmptyFilters, <<>>, "title") >>
  /\ db = InitDb
  /\ created = 0
  /\ hist = <<>>
  /\ failed = FALSE
  /\ last = Act("mount", 0)

\* a user event is possible
CanAct == Len(hist) < MaxOps
\* a user event that sends requests is possible
CanSend == Len(hist) < MaxOps /\ Len(inflight) <= MaxInFlight

\* ------------------------------------------------------- derived (render)
\* getFilteredVideos, of the state of one render
getFilteredVideos(vs, text0, field, f) ==
  LET text == toLowerCase(trim(text0))
  IN IF text # <<>>
     THEN IF field = "search"
          THEN SelectSeq(vs, LAMBDA v :
                 \/ includes(toLowerCase(v.title), text)
                 \/ includes(toLowerCase(v.description), text)
                 \/ includes(toLowerCase(v.transcriptText), text))
          ELSE SelectSeq(vs, LAMBDA v : includes(toLowerCase(v[field]), text))
     ELSE SelectSeq(vs, LAMBDA v :
            \A k \in FilterFields :
               \/ trim(f[k]) = <<>>
               \/ includes(toLowerCase(v[k]), toLowerCase(trim(f[k]))))

filteredVideos == getFilteredVideos(videos, searchText, searchField, filters)

\* filteredVideos.slice((page - 1) * PAGE_LIMIT, page * PAGE_LIMIT)
PageSlice(fv, p) ==
  LET from == (p - 1) * PAGE_LIMIT + 1
      to == IF p * PAGE_LIMIT < Len(fv) THEN p * PAGE_LIMIT ELSE Len(fv)
  IN IF from > to THEN <<>> ELSE SubSeq(fv, from, to)

\* the rows of the table (none while loading)
visibleRows == IF loading THEN <<>> ELSE PageSlice(filteredVideos, page)

\* x || 0
OrZero(x) == IF x = Undefined THEN 0 ELSE x

\* a count that takes the title matches for the any-field option
getMatchedDocumentCountOfTitle(text, field, f, counts, estimated) ==
  IF trim(text) # <<>>
  THEN CASE field = "description" -> OrZero(counts.descDocs)
         [] field = "transcriptText" -> OrZero(counts.transDocs)
         [] OTHER -> OrZero(counts.titleDocs)
  ELSE IF trim(f.title) # <<>> THEN OrZero(counts.titleDocs)
  ELSE IF trim(f.description) # <<>> THEN OrZero(counts.descDocs)
  ELSE IF trim(f.transcriptText) # <<>> THEN OrZero(counts.transDocs)
  ELSE estimated

getMatchedDocumentCount(text, field, f, counts, estimated) ==
  IF trim(text) # <<>>
  THEN CASE field = "title" -> OrZero(counts.titleDocs)
         [] field = "description" -> OrZero(counts.descDocs)
         [] field = "transcriptText" -> OrZero(counts.transDocs)
         [] field = "search" -> OrZero(counts.totalDocs)
         [] OTHER -> OrZero(counts.totalDocs)
  ELSE IF trim(f.title) # <<>> THEN OrZero(counts.titleDocs)
  ELSE IF trim(f.description) # <<>> THEN OrZero(counts.descDocs)
  ELSE IF trim(f.transcriptText) # <<>> THEN OrZero(counts.transDocs)
  ELSE estimated

matchedDocumentCount ==
  getMatchedDocumentCount(searchText, searchField, filters, filterCounts,
                          estimatedCount)

\* Math.ceil(estimated_count / PAGE_LIMIT)
CeilPages(n) == (n + PAGE_LIMIT - 1) \div PAGE_LIMIT

\* ------------------------------------------------------ search and filters
\* typing into the search box
SetTempSearchText(t) ==
  /\ CanAct
  /\ t # tempSearchText
  /\ tempSearchText' = t
  /\ hist' = Append(hist, Act("SetTempSearchText", t))
  /\ last' = Act("SetTempSearchText", t)
  /\ UNCHANGED failed
  /\ UNCHANGED <<videos, loading, nextCursor, searchText, searchField, filters,
                 estimatedCount, filterCounts, appliedFilters, page, totalPages,
                 modalVars, inflight, serverVars>>
  /\ UNCHANGED content

\* the field select: the changed searchField re-creates fetchVideos, whose
\* effect sends the list request
SetSearchField(f) ==
  /\ CanSend
  /\ f # searchField
  /\ searchField' = f
  /\ inflight' = Append(inflight, ListRequest(filters, searchText, f))
  /\ loading' = TRUE
  /\ hist' = Append(hist, Act("SetSearchField", f))
  /\ last' = Act("SetSearchField", f)
  /\ UNCHANGED failed
  /\ UNCHANGED <<videos, nextCursor, searchText, filters, estimatedCount,
                 filterCounts, tempSearchText, appliedFilters, page, totalPages,
                 modalVars, serverVars>>
  /\ UNCHANGED content

\* The requests Apply sends. handleSearch calls fetchVideos and
\* fetchFilterCounts of the render it was created in (query text: old); the
\* setSearchText(pending) re-renders, and when the text changed the effects
\* call the re-created fetchVideos and fetchFilterCounts (query text: pending).
handleSearchRequests(f, old, pending, field) ==
  <<ListRequest(f, old, field)>> \o CountsRequests(old)
    \o (IF pending # old
        THEN <<ListRequest(f, pending, field)>> \o CountsRequests(pending)
        ELSE <<>>)

handleSearch ==
  /\ CanSend
  /\ searchText' = tempSearchText
  /\ inflight' = inflight \o handleSearchRequests(filters, searchText,
                                                  tempSearchText, searchField)
  /\ loading' = TRUE
  /\ filterCounts' =
       IF \/ trim(searchText) = <<>>
          \/ (tempSearchText # searchText /\ trim(tempSearchText) = <<>>)
       THEN ZeroCounts
       ELSE filterCounts
  /\ hist' = Append(hist, Act("handleSearch", tempSearchText))
  /\ last' = Act("handleSearch", tempSearchText)
  /\ UNCHANGED failed
  /\ UNCHANGED <<videos, nextCursor, searchField, filters, estimatedCount,
                 tempSearchText, appliedFilters, page, totalPages, modalVars,
                 serverVars>>
  /\ UNCHANGED content

\* a Reset that forgets setPage(1)
ResetStateKeepsPage(vs) ==
  [tempSearchText |-> <<>>, searchText |-> <<>>, filters |-> EmptyFilters,
   appliedFilters |-> <<>>, page |-> page, estimatedCount |-> Len(vs)]

\* what the Reset handler leaves in the query state, in page and in
\* estimatedCount
ResetState(vs) ==
  [tempSearchText |-> <<>>, searchText |-> <<>>, filters |-> EmptyFilters,
   appliedFilters |-> <<>>, page |-> 1, estimatedCount |-> Len(vs)]

\* Reset: the new filters object re-creates fetchVideos (effect: the list
\* request of the new render); a changed searchText re-creates
\* fetchFilterCounts, which finds the query blank and zeroes the counts
Reset ==
  /\ CanSend
  /\ LET r == ResetState(videos)
     IN /\ tempSearchText' = r.tempSearchText
        /\ searchText' = r.searchText
        /\ filters' = r.filters
        /\ appliedFilters' = r.appliedFilters
        /\ page' = r.page
        /\ estimatedCount' = r.estimatedCount
        /\ inflight' = Append(inflight,
                              ListRequest(r.filters, r.searchText, searchField))
  /\ loading' = TRUE
  /\ filterCounts' = IF searchText # <<>> THEN ZeroCounts ELSE filterCounts
  /\ hist' = Append(hist, Act("Reset", 0))
  /\ last' = Act("Reset", 0)
  /\ UNCHANGED failed
  /\ UNCHANGED <<videos, nextCursor, searchField, totalPages, modalVars,
                 serverVars>>
  /\ UNCHANGED content

\* updatedFilters of handleFilterChange
UpdatedFilters(applied, field, value) ==
  SelectSeq(applied, LAMBDA a : a.field # field)
    \o (IF trim(value) # <<>> THEN <<[field |-> field, value |-> value]>> ELSE <<>>)

handleFilterChange(field, value) ==
  /\ CanSend
  /\ value # filters[field]
  /\ filters' = [filters EXCEPT ![field] = value]
  /\ appliedFilters' = UpdatedFilters(appliedFilters, field, value)
  /\ inflight' = Append(inflight, ListRequest(filters', searchText, searchField))
  /\ loading' = TRUE
  /\ hist' = Append(hist, Act("handleFilterChange", <<field, value>>))
  /\ last' = Act("handleFilterChange", <<field, value>>)
  /\ UNCHANGED failed
  /\ UNCHANGED <<videos, nextCursor, searchText, searchField, estimatedCount,
                 filterCounts, tempSearchText, page, totalPages, modalVars,
                 serverVars>>
  /\ UNCHANGED content

\* ------------------------------------------------------ fetch continuations
\* a fetchVideos that drops the response of a request that is not for the
\* active query
fetchVideosThenDropsStale(req, res) ==
  IF req.params = Params(filters, searchText, searchField, Null)
  THEN [videos |-> res.data,
        nextCursor |-> res.next_cursor,
        filterCounts |-> IF res.has_counts THEN res.filter_counts ELSE EmptyCounts,
        estimatedCount |-> res.estimated_count,
        totalPages |-> (res.estimated_count + PAGE_LIMIT - 1) \div PAGE_LIMIT]
  ELSE [videos |-> videos, nextCursor |-> nextCursor,
        filterCounts |-> filterCounts, estimatedCount |-> estimatedCount,
        totalPages |-> totalPages]

\* what fetchVideos stores when its response arrives (lines 77-84)
fetchVideosThen(req, res) ==
  [videos |-> res.data,
   nextCursor |-> res.next_cursor,
   filterCounts |-> IF res.has_counts THEN res.filter_counts ELSE EmptyCounts,
   estimatedCount |-> res.estimated_count,
   totalPages |-> CeilPages(res.estimated_count)]

ListOk(i, withCounts) ==
  /\ inflight[i].kind = "list"
  /\ LET req == inflight[i]
         new == fetchVideosThen(req, ServerList(db, req.params, withCounts))
     IN /\ videos' = new.videos
        /\ nextCursor' = new.nextCursor
        /\ filterCounts' = new.filterCounts
        /\ estimatedCount' = new.estimatedCount
        /\ totalPages' = new.totalPages
        /\ last' = Act("ListOk", i)
  /\ loading' = FALSE
  /\ inflight' = Without(inflight, i)
  /\ UNCHANGED <<queryVars, page, modalVars, serverVars, hist, failed>>
  /\ UNCHANGED content

ListFail(i) ==
  /\ inflight[i].kind = "list"
  /\ loading' = FALSE
  /\ inflight' = Without(inflight, i)
  /\ last' = Act("ListFail", i)
  /\ UNCHANGED <<listVars, filterCounts, queryVars, page, modalVars, serverVars,
                 hist>>
  /\ failed' = TRUE
  /\ UNCHANGED content

CountsOk(i) ==
  /\ inflight[i].kind = "counts"
  /\ filterCounts' = ServerCounts(db, inflight[i].params.search)
  /\ inflight' = Without(inflight, i)
  /\ last' = Act("CountsOk", i)
  /\ UNCHANGED <<listVars, loading, queryVars, page, modalVars, serverVars, hist, failed>>
  /\ UNCHANGED content

CountsFail(i) ==
  /\ inflight[i].kind = "counts"
  /\ inflight' = Without(inflight, i)
  /\ last' = Act("CountsFail", i)
  /\ UNCHANGED <<listVars, filterCounts, loading, queryVars, page, modalVars,
                 serverVars, hist>>
  /\ failed' = TRUE
  /\ UNCHANGED content

\* -------------------------------------------------------------- pagination
\* the loop condition of handlePageChange (line 164)
WalkContinues(buf, target, cursor) ==
  Len(buf) < target * PAGE_LIMIT /\ cursor # Null

\* the GET of one loop iteration (lines 165-175), with the loop's local
\* buffer and target page
WalkRequest(params, cursor, buf, target) ==
  Request("walk", [params EXCEPT !.last_id = cursor], 0, <<>>, buf, target)

\* a walk that stores the last batch in place of the buffer
WalkStoresLastBatch(buf, batch, cursor) == [videos |-> batch, nextCursor |-> cursor]

\* what a finished walk stores (lines 182-183)
WalkStores(buf, batch, cursor) == [videos |-> buf \o batch, nextCursor |-> cursor]

\* handlePageChange up to its first await, or to its end when the loop does
\* not run
handlePageChange(target) ==
  /\ CanSend
  /\ ~(target < 1 \/ target > totalPages \/ target = page)
  /\ page' = target
  /\ IF WalkContinues(filteredVideos, target, nextCursor)
     THEN /\ inflight' =
               Append(inflight,
                 [WalkRequest(Params(filters, searchText, searchField, Null),
                              nextCursor, filteredVideos, target)
                    EXCEPT !.pre = filteredVideos, !.got = <<>>,
                           !.seen = nextCursor, !.v0 = videos,
                           !.c0 = nextCursor, !.started = Len(hist) + 1,
                           !.others = Len(inflight)])
          /\ loading' = TRUE
          /\ UNCHANGED <<videos, nextCursor>>
     ELSE /\ LET new == WalkStores(filteredVideos, <<>>, nextCursor)
             IN videos' = new.videos /\ nextCursor' = new.nextCursor
          /\ loading' = FALSE
          /\ UNCHANGED inflight
  /\ hist' = Append(hist, Act("handlePageChange", target))
  /\ last' = Act("handlePageChange", target)
  /\ UNCHANGED failed
  /\ UNCHANGED <<queryVars, estimatedCount, filterCounts, totalPages, modalVars,
                 serverVars>>
  /\ UNCHANGED content

\* a batch arrives and the loop goes on: the next request
WalkNext(i) ==
  /\ inflight[i].kind = "walk"
  /\ LET req == inflight[i]
         res == ServerList(db, req.params, TRUE)
         buf == req.buf \o res.data
     IN /\ WalkContinues(buf, req.target, res.next_cursor)
        /\ inflight' =
             Append(Without(inflight, i),
               [WalkRequest(req.params, res.next_cursor, buf, req.target)
                  EXCEPT !.pre = req.pre, !.got = req.got \o res.data,
                         !.seen = res.next_cursor, !.v0 = req.v0,
                         !.c0 = req.c0, !.started = req.started,
                         !.others = req.others])
        /\ last' = Act("WalkNext", i)
  /\ UNCHANGED <<listVars, loading, filterCounts, queryVars, page, modalVars,
                 serverVars, hist, failed>>
  /\ UNCHANGED content

\* a batch arrives and the loop ends: the buffer and the cursor are stored
WalkDone(i) ==
  /\ inflight[i].kind = "walk"
  /\ LET req == inflight[i]
         res == ServerList(db, req.params, TRUE)
         new == WalkStores(req.buf, res.data, res.next_cursor)
     IN /\ ~WalkContinues(req.buf \o res.data, req.target, res.next_cursor)
        /\ videos' = new.videos
        /\ nextCursor' = new.nextCursor
        /\ last' = Act("WalkDone", i)
  /\ loading' = FALSE
  /\ inflight' = Without(inflight, i)
  /\ UNCHANGED <<estimatedCount, totalPages, filterCounts, queryVars, page,
                 modalVars, serverVars, hist, failed>>
  /\ UNCHANGED content

\* a failure handling that stores what the loop had buffered
WalkFailStoresBuffer(i) ==
  /\ inflight[i].kind = "walk"
  /\ videos' = inflight[i].buf
  /\ nextCursor' = inflight[i].params.last_id
  /\ loading' = FALSE
  /\ inflight' = Without(inflight, i)
  /\ last' = Act("WalkFail", i)
  /\ failed' = TRUE
  /\ UNCHANGED <<estimatedCount, totalPages, filterCounts, queryVars, page,
                 modalVars, serverVars, hist>>
  /\ UNCHANGED content

\* a request of the walk fails: catch logs, finally clears loading
WalkFail(i) ==
  /\ inflight[i].kind = "walk"
  /\ loading' = FALSE
  /\ inflight' = Without(inflight, i)
  /\ last' = Act("WalkFail", i)
  /\ UNCHANGED <<listVars, filterCounts, queryVars, page, modalVars, serverVars,
                 hist>>
  /\ failed' = TRUE
  /\ UNCHANGED content

\* ------------------------------------------------------------------ delete
\* a delete that drops the row at the head of the list instead of the rows
\* with the identifier
RemoveByIdDropsHead(prev, id) == IF prev = <<>> THEN prev ELSE Tail(prev)

\* prev.filter((v) => v._id !== id)
RemoveById(prev, id) == SelectSeq(prev, LAMBDA v : v._id # id)

\* handleDelete up to its await, the confirmation given
handleDelete(id) ==
  /\ inflight' = Append(inflight, Request("delete", NoParams, id, <<>>, <<>>, 0))
  /\ hist' = Append(hist, Act("handleDelete", id))
  /\ last' = Act("handleDelete", id)
  /\ UNCHANGED failed
  /\ UNCHANGED <<listVars, loading, filterCounts, queryVars, page, modalVars,
                 serverVars>>
  /\ UNCHANGED content

DeleteOk(i) ==
  /\ inflight[i].kind = "delete"
  /\ InDb(db, inflight[i].id)
  /\ db' = ServerDelete(db, inflight[i].id)
  /\ videos' = RemoveById(videos, inflight[i].id)
  /\ inflight' = Without(inflight, i)
  /\ last' = Act("DeleteOk", i)
  /\ UNCHANGED <<nextCursor, estimatedCount, totalPages, loading, filterCounts,
                 queryVars, page, modalVars, created, hist, failed>>
  /\ UNCHANGED content

DeleteFail(i) ==
  /\ inflight[i].kind = "delete"
  /\ inflight' = Without(inflight, i)
  /\ last' = Act("DeleteFail", i)
  /\ UNCHANGED <<listVars, loading, filterCounts, queryVars, page, modalVars,
                 serverVars, hist>>
  /\ failed' = TRUE
  /\ UNCHANGED content

\* ---------------------------------------------------------- Add/Edit modal
\* the form of the Edit modal as the effect fills it from the record
CleanForm(video) == [k \in FIELDS |-> video[k]]

\* the forms a user submits: for Add, a title that matches the query text A
\* and one that does not; for Edit, the filled form with one field retyped
AddForms == {[NoForm EXCEPT !.title = <<"A">>], [NoForm EXCEPT !.title = <<"b">>]}
EditForms(video) ==
  {[CleanForm(video) EXCEPT !.title = <<"A", "b">>],
   [CleanForm(video) EXCEPT !.viewCount = <<"7">>]}

\* a create that appends
PrependAtEnd(rec, prev) == Append(prev, rec)

\* [res.data, ...prev]
Prepend(rec, prev) == <<rec>> \o prev

\* an update that puts the form in the place of the record
PatchByIdReplaces(prev, id, formData) ==
  [n \in 1..Len(prev) |-> IF prev[n]._id = id THEN formData ELSE prev[n]]

\* prev.map((item) => item._id === id ? { ...item, ...formData } : item)
PatchById(prev, id, formData) ==
  [n \in 1..Len(prev) |->
     IF prev[n]._id = id
     THEN [k \in DOMAIN prev[n] |->
             IF k \in DOMAIN formData THEN formData[k] ELSE prev[n][k]]
     ELSE prev[n]]

OpenAdd ==
  /\ CanAct
  /\ ~showAddModal
  /\ showAddModal' = TRUE
  /\ hist' = Append(hist, Act("OpenAdd", 0))
  /\ last' = Act("OpenAdd", 0)
  /\ UNCHANGED failed
  /\ UNCHANGED <<listVars, loading, filterCounts, queryVars, page, showEditModal,
                 videoToEdit, inflight, serverVars>>
  /\ UNCHANGED content

\* the Delete button of row k of the table
ClickDelete(k) ==
  /\ CanSend
  /\ k <= Len(visibleRows)
  /\ handleDelete(visibleRows[k]._id)

\* the Edit button of row k of the table
ClickEdit(k) ==
  /\ CanAct
  /\ k <= Len(visibleRows)
  /\ videoToEdit' = <<visibleRows[k]>>
  /\ showEditModal' = TRUE
  /\ hist' = Append(hist, Act("ClickEdit", visibleRows[k]._id))
  /\ last' = Act("ClickEdit", visibleRows[k]._id)
  /\ UNCHANGED failed
  /\ UNCHANGED <<listVars, loading, filterCounts, queryVars, page, showAddModal,
                 inflight, serverVars>>
  /\ UNCHANGED content

\* the close button of either modal
CloseModal ==
  /\ CanAct
  /\ showAddModal \/ showEditModal
  /\ \/ showAddModal /\ showAddModal' = FALSE /\ UNCHANGED showEditModal
     \/ showEditModal /\ showEditModal' = FALSE /\ UNCHANGED showAddModal
  /\ hist' = Append(hist, Act("CloseModal", 0))
  /\ last' = Act("CloseModal", 0)
  /\ UNCHANGED failed
  /\ UNCHANGED <<listVars, loading, filterCounts, queryVars, page, videoToEdit,
                 inflight, serverVars>>
  /\ UNCHANGED content

\* handleSubmit of the Add modal up to its await
SubmitAdd(form) ==
  /\ CanSend
  /\ showAddModal
  /\ created < MaxCreated
  /\ inflight' = Append(inflight, Request("post", NoParams, 0, form, <<>>, 0))
  /\ hist' = Append(hist, Act("SubmitAdd", form))
  /\ last' = Act("SubmitAdd", form)
  /\ UNCHANGED failed
  /\ UNCHANGED <<listVars, loading, filterCounts, queryVars, page, modalVars,
                 serverVars>>
  /\ UNCHANGED content

\* handleSubmit of the Edit modal up to its await
SubmitEdit(form) ==
  /\ CanSend
  /\ showEditModal
  /\ videoToEdit # <<>>
  /\ form \in EditForms(videoToEdit[1])
  /\ inflight' =
       Append(inflight,
              Request("put", NoParams, videoToEdit[1]._id, form, <<>>, 0))
  /\ hist' = Append(hist, Act("SubmitEdit", form))
  /\ last' = Act("SubmitEdit", form)
  /\ UNCHANGED failed
  /\ UNCHANGED <<listVars, loading, filterCounts, queryVars, page, modalVars,
                 serverVars>>
  /\ UNCHANGED content

\* the record the backend makes of a posted form
Created(form, n) ==
  [k \in FIELDS \cup {"_id"} |-> IF k = "_id" THEN Len(InitDb) + n + 1 ELSE form[k]]

PostOk(i) ==
  /\ inflight[i].kind = "post"
  /\ LET rec == Created(inflight[i].form, created)
     IN /\ db' = Append(db, rec)
        /\ videos' = Prepend(rec, videos)
        /\ last' = Act("PostOk", i)
  /\ created' = created + 1
  /\ showAddModal' = FALSE
  /\ inflight' = Without(inflight, i)
  /\ UNCHANGED <<nextCursor, estimatedCount, totalPages, loading, filterCounts,
                 queryVars, page, showEditModal, videoToEdit, hist, failed>>
  /\ UNCHANGED content

PutOk(i) ==
  /\ inflight[i].kind = "put"
  /\ InDb(db, inflight[i].id)
  /\ db' = ServerPut(db, inflight[i].id, inflight[i].form)
  /\ videos' = PatchById(videos, inflight[i].id, inflight[i].form)
  /\ showEditModal' = FALSE
  /\ inflight' = Without(inflight, i)
  /\ last' = Act("PutOk", i)
  /\ UNCHANGED <<nextCursor, estimatedCount, totalPages, loading, filterCounts,
                 queryVars, page, showAddModal, videoToEdit, created, hist, failed>>
  /\ UNCHANGED content

\* a failed POST or PUT: the alert, nothing else
SaveFail(i) ==
  /\ inflight[i].kind \in {"post", "put"}
  /\ inflight' = Without(inflight, i)
  /\ last' = Act("SaveFail", i)
  /\ UNCHANGED <<listVars, loading, filterCounts, queryVars, page, modalVars,
                 serverVars, hist>>
  /\ failed' = TRUE
  /\ UNCHANGED content

\* --------------------------------------------------------- VisualEditor
\* The transcript editor (VisualEditor), the component the Add/Edit modal
\* renders for transcriptText.  Its state is the HTML `content`; the two
\* counters are computed from it on every render.
\* longest content the editor is given, one character at a time
MaxLen == 3

\* the characters of the enumerated contents: markup, white space, a letter
Alphabet == {"<", ">", " ", "\n", "a"}
StringsOf(n) == UNION {[1..m -> Alphabet] : m \in 0..n}

\* <p>Hello world</p>
Fixture ==
  <<"<", "p", ">", "H", "e", "l", "l", "o", " ", "w", "o", "r", "l", "d",
    "<", "/", "p", ">">>

\* the HTML the widget hands to handleChange, or the parent passes down
Contents == StringsOf(MaxLen) \cup {Fixture}

\* the transcriptText prop: absent (<<>>) or a text (<<t>>)
Props == {<<>>} \cup {<<t>> : t \in Contents}

\* a character \s matches
IsSpace(c) == c \in {" ", "\n"}

\* a replace without the g flag: only the first match goes
RECURSIVE replaceFirstTagFrom(_, _)
replaceFirstTagFrom(s, i) ==
  IF i > Len(s) THEN <<>>
  ELSE IF s[i] = "<" /\ \E j \in (i + 1)..Len(s) : s[j] = ">"
       THEN LET close == CHOOSE j \in (i + 1)..Len(s) :
                           /\ s[j] = ">"
                           /\ \A m \in (i + 1)..(j - 1) : s[m] # ">"
            IN  SubSeq(s, close + 1, Len(s))
       ELSE <<s[i]>> \o replaceFirstTagFrom(s, i + 1)
replaceFirstTag(s) == replaceFirstTagFrom(s, 1)

\* content.replace(/<[^>]*>/g, ""): the scan goes left to right; at a "<"
\* that has a ">" somewhere after it the match runs to the first such ">"
\* and the scan resumes behind it; any other character is kept
RECURSIVE replaceTagsFrom(_, _)
replaceTagsFrom(s, i) ==
  IF i > Len(s) THEN <<>>
  ELSE IF s[i] = "<" /\ \E j \in (i + 1)..Len(s) : s[j] = ">"
       THEN LET close == CHOOSE j \in (i + 1)..Len(s) :
                           /\ s[j] = ">"
                           /\ \A m \in (i + 1)..(j - 1) : s[m] # ">"
            IN  replaceTagsFrom(s, close + 1)
       ELSE <<s[i]>> \o replaceTagsFrom(s, i + 1)
replaceTags(s) == replaceTagsFrom(s, 1)

\* split(/\s+/): the pieces between the maximal white-space runs, the empty
\* pieces before a leading and behind a trailing run included
RECURSIVE splitFrom(_, _, _)
splitFrom(s, i, piece) ==
  IF i > Len(s) THEN <<piece>>
  ELSE IF IsSpace(s[i])
       THEN IF i < Len(s) /\ IsSpace(s[i + 1])
            THEN splitFrom(s, i + 1, piece)
            ELSE <<piece>> \o splitFrom(s, i + 1, <<>>)
       ELSE splitFrom(s, i + 1, Append(piece, s[i]))
split(s) == splitFrom(s, 1, <<>>)

\* Boolean(piece): an empty string is falsy
Boolean(piece) == piece # <<>>

wordCountOf(c) == Len(SelectSeq(split(replaceTags(c)), Boolean))
charCountOf(c) == Len(replaceTags(c))
wordCount == wordCountOf(content)
charCount == charCountOf(content)

\* the editor as the modal mounts it for a new record
EditorInit ==
  /\ Init
  /\ content = <<>>

\* the effect on [transcriptText]: setContent(transcriptText || "")
SyncContent(prop) ==
  /\ content' = IF prop = <<>> THEN <<>> ELSE prop[1]
  /\ UNCHANGED vars

\* handleChange: setContent(value)
handleChange(value) ==
  /\ content' = value
  /\ UNCHANGED vars

EditorNext ==
  \/ \E prop \in Props : SyncContent(prop)
  \/ \E value \in Contents : handleChange(value)

EditorSpec == EditorInit /\ [][EditorNext]_allVars

\* ------------------------------------------------------------ specification
Next ==
  \/ \E t \in Texts : SetTempSearchText(t)
  \/ \E f \in SearchFields : SetSearchField(f)
  \/ handleSearch
  \/ Reset
  \/ \E f \in FilterFields, t \in Texts : handleFilterChange(f, t)
  \/ \E p \in 1..totalPages : handlePageChange(p)
  \/ \E k \in 1..PAGE_LIMIT : ClickDelete(k)
  \/ OpenAdd
  \/ \E k \in 1..PAGE_LIMIT : ClickEdit(k)
  \/ CloseModal
  \/ \E form \in AddForms : SubmitAdd(form)
  \/ \E k \in 1..Len(videoToEdit) : \E form \in EditForms(videoToEdit[k]) :
       SubmitEdit(form)
  \/ \E i \in 1..Len(inflight), c \in BOOLEAN : ListOk(i, c)
  \/ \E i \in 1..Len(inflight) : ListFail(i)
  \/ \E i \in 1..Len(inflight) : CountsOk(i)
  \/ \E i \in 1..Len(inflight) : CountsFail(i)
  \/ \E i \in 1..Len(inflight) : WalkNext(i)
  \/ \E i \in 1..Len(inflight) : WalkDone(i)
  \/ \E i \in 1..Len(inflight) : WalkFail(i)
  \/ \E i \in 1..Len(inflight) : DeleteOk(i)
  \/ \E i \in 1..Len(inflight) : DeleteFail(i)
  \/ \E i \in 1..Len(inflight) : PostOk(i)
  \/ \E i \in 1..Len(inflight) : PutOk(i)
  \/ \E i \in 1..Len(inflight) : SaveFail(i)

\* the dashboard; the editor is left as the modal mounts it
Spec == EditorInit /\ [][Next]_allVars

\* ==================================================================== claims
\* the step just taken was the continuation `op`; its request is TheRequest
Took(op) == last'.op = op
TheRequest == inflight[last'.arg]

\* the n-th position (counted from 1) of `before` that holds another
\* identifier than id
KeptPositions(before, id) == {n \in 1..Len(before) : before[n]._id # id}
NthKept(before, id, m) ==
  CHOOSE n \in KeptPositions(before, id) :
    Cardinality({x \in KeptPositions(before, id) : x <= n}) = m

\* after is before without its records of identifier id, the others in order
OthersKept(before, after, id) ==
  /\ Len(after) = Cardinality(KeptPositions(before, id))
  /\ \A m \in 1..Len(after) : after[m] = before[NthKept(before, id, m)]

\* ------------------------------------------------------------------- C1
\* C1 as stated: a successful delete of id leaves videos exactly one record
\* shorter, with no record of that id and the other records in their order.
C1_ExactlyOneRemoved ==
  [][Took("DeleteOk") =>
       /\ Len(videos') = Len(videos) - 1
       /\ \A n \in 1..Len(videos') : videos'[n]._id # TheRequest.id
       /\ OthersKept(videos, videos', TheRequest.id)]_vars

\* C1 amended: a successful delete of id leaves videos with no record of
\* that id and with every other record, in the previous order; videos gets
\* shorter by the number of records that had the id, which is one when the
\* buffer holds the id once and none when a list response that arrived while
\* the DELETE was in flight had already replaced the buffer.
C1_DeleteRemovesId ==
  [][Took("DeleteOk") =>
       /\ \A n \in 1..Len(videos') : videos'[n]._id # TheRequest.id
       /\ OthersKept(videos, videos', TheRequest.id)
       /\ Len(videos') =
            Len(videos)
              - Cardinality({n \in 1..Len(videos) : videos[n]._id = TheRequest.id})
       /\ (Cardinality({n \in 1..Len(videos) : videos[n]._id = TheRequest.id}) = 1
             => Len(videos') = Len(videos) - 1)]_vars

\* a delete of a row has succeeded and rows remain
C1_Witness ==
  /\ last.op = "DeleteOk"
  /\ Len(hist) = 1
  /\ hist[1].op = "handleDelete"
  /\ Len(videos) = PAGE_LIMIT - 1
  /\ \A n \in 1..Len(videos) : videos[n]._id # hist[1].arg

\* ------------------------------------------------------------------- C2
\* the record the backend returns for the POST
NewRecord == Created(TheRequest.form, created)
Passes(rec) ==
  getFilteredVideos(<<rec>>, searchText, searchField, filters) = <<rec>>
Shown == PageSlice(filteredVideos, page)
FirstRows(rows) ==
  IF Len(rows) <= PAGE_LIMIT THEN rows ELSE SubSeq(rows, 1, PAGE_LIMIT)

\* C2 as stated: after a successful create, whatever the page and the query,
\* the new record is the first element of videos and the first visible row,
\* followed by the previously visible rows in their order.
C2_FirstVisibleRow ==
  [][Took("PostOk") =>
       /\ videos'[1] = NewRecord
       /\ Shown' = FirstRows(<<NewRecord>> \o Shown)]_vars

\* C2 amended: after a successful create the new record is the first
\* element of videos, followed by the previous videos in order; the locally
\* filtered list gains it at its head when it passes the local filter of the
\* active query, and is unchanged when it does not; on page 1 a passing
\* record is the first visible row, followed by the previously visible rows
\* in order, as many as fit the page.
C2_CreatePrepends ==
  [][Took("PostOk") =>
       /\ videos' = <<NewRecord>> \o videos
       /\ filteredVideos' =
            (IF Passes(NewRecord) THEN <<NewRecord>> ELSE <<>>) \o filteredVideos
       /\ (page = 1 /\ Passes(NewRecord)
             => Shown' = FirstRows(<<NewRecord>> \o Shown))]_vars

\* a record has been created on page 1 and is the first visible row, the
\* previously first row after it
C2_Witness ==
  /\ last.op = "PostOk"
  /\ page = 1
  /\ Len(Shown) = PAGE_LIMIT
  /\ Shown[1]._id = Len(InitDb) + 1
  /\ Shown[2]._id = 1

\* ------------------------------------------------------------------- C3
\* the only user events were a filter change of one field to a non-blank
\* value and then to the empty text
FilterRoundTrip ==
  /\ Len(hist) = 2
  /\ hist[1].op = "handleFilterChange"
  /\ hist[2].op = "handleFilterChange"
  /\ hist[1].arg[1] = hist[2].arg[1]
  /\ trim(hist[1].arg[2]) # <<>>
  /\ hist[2].arg[2] = <<>>

\* C3: after handleFilterChange(f, v) and handleFilterChange(f, "") from the
\* empty query, filters and appliedFilters are what they were, and when all
\* the list fetches have completed (none failed), in whatever order, the
\* displayed filtered list is the backend's unfiltered list.
C3_FilterRoundTrip ==
  FilterRoundTrip =>
    /\ filters = EmptyFilters
    /\ appliedFilters = <<>>
    /\ (inflight = <<>> /\ ~failed
          => filteredVideos = ServerList(db, NoParams, TRUE).data)

\* ------------------------------------------------------------------- C4
\* the requests the step has sent
Sent == {n \in (Len(inflight) + 1)..Len(inflight') : TRUE}

\* C4: Apply makes searchText the pending text, and every list and
\* filter-count request it sends carries the pending text as search.
C4_ApplySendsPendingText ==
  [][Took("handleSearch") =>
       /\ searchText' = tempSearchText
       /\ Sent # {}
       /\ \A n \in Sent : inflight'[n].params.search = tempSearchText]_vars

\* ------------------------------------------------------------------- C5
\* a list request for the first page of the empty query
IsFirstPageOfAll(r) ==
  /\ r.kind = "list"
  /\ r.params.last_id = Null
  /\ r.params.search = <<>>
  /\ r.params.title = <<>>
  /\ r.params.description = <<>>
  /\ r.params.transcriptText = <<>>

\* C5: Reset empties tempSearchText, searchText, the three filters and
\* appliedFilters, sets page to 1 and sends one list request without cursor
\* and with empty search and filter parameters; when such a request
\* succeeds, videos, nextCursor, estimatedCount and totalPages are those of
\* its response.
C5_ResetReloadsFirstPage ==
  [][/\ Took("Reset") =>
          /\ tempSearchText' = <<>>
          /\ searchText' = <<>>
          /\ filters' = EmptyFilters
          /\ appliedFilters' = <<>>
          /\ page' = 1
          /\ Len(inflight') = Len(inflight) + 1
          /\ SubSeq(inflight', 1, Len(inflight)) = inflight
          /\ IsFirstPageOfAll(inflight'[Len(inflight')])
     /\ Took("ListOk") /\ IsFirstPageOfAll(TheRequest) =>
          LET res == ServerList(db, TheRequest.params, TRUE)
          IN /\ videos' = res.data
             /\ nextCursor' = res.next_cursor
             /\ estimatedCount' = res.estimated_count
             /\ totalPages' * PAGE_LIMIT >= res.estimated_count
             /\ (totalPages' - 1) * PAGE_LIMIT < res.estimated_count]_vars

\* Reset was pressed on page 2 and its fetch has succeeded: page 1 of the
\* five records is stored
C5_Witness ==
  /\ last.op = "ListOk"
  /\ inflight = <<>>
  /\ Len(hist) >= 2
  /\ hist[Len(hist)].op = "Reset"
  /\ hist[Len(hist) - 1].op = "handlePageChange"
  /\ page = 1
  /\ Len(videos) = PAGE_LIMIT
  /\ nextCursor = videos[PAGE_LIMIT]._id
  /\ estimatedCount = Len(InitDb)
  /\ totalPages = 3

\* ------------------------------------------------------------------- C8
QueryEvents ==
  {"SetTempSearchText", "SetSearchField", "handleSearch", "Reset",
   "handleFilterChange"}

\* C8: the response of a list request that is not for the active query
\* (an earlier request arriving late) still overwrites videos, nextCursor,
\* filterCounts, estimatedCount and totalPages with its own result.
C8_LateResponseOverwrites ==
  [][(/\ Took("ListOk")
      /\ TheRequest.params # Params(filters, searchText, searchField, Null)) =>
       LET res == ServerList(db, TheRequest.params, TRUE)
       IN /\ videos' = res.data
          /\ nextCursor' = res.next_cursor
          /\ filterCounts' \in {res.filter_counts, EmptyCounts}
          /\ estimatedCount' = res.estimated_count
          /\ totalPages' = CeilPages(res.estimated_count)]_vars

\* only the query was changed, every request has completed and none failed,
\* and the stored list is not the backend's answer to the active query
C8_Witness ==
  /\ inflight = <<>>
  /\ ~failed
  /\ last.op = "ListOk"
  /\ \A n \in 1..Len(hist) : hist[n].op \in QueryEvents
  /\ videos # ServerList(db, Params(filters, searchText, searchField, Null), TRUE).data

\* ------------------------------------------------------------------- C6
\* positions (p - 1) * PAGE_LIMIT + 1 .. p * PAGE_LIMIT of a buffer, as far
\* as it has them
BufferPage(buf, p) ==
  LET at == {n \in 1..Len(buf) : (p - 1) * PAGE_LIMIT < n /\ n <= p * PAGE_LIMIT}
  IN [m \in 1..Cardinality(at) |-> buf[(p - 1) * PAGE_LIMIT + m]]

\* the query of the render a walk was started in is the active one
SameQuery(req) ==
  Params(filters, searchText, searchField, Null) = [req.params EXCEPT !.last_id = Null]

\* what C6 says of the requests and of the stored result of a page change;
\* shows(req) is when the target page's slice of the buffer must be displayed
WalkClaim(shows(_)) ==
  /\ Took("handlePageChange") =>
       /\ 1 <= last'.arg /\ last'.arg <= totalPages /\ last'.arg # page
       /\ page' = last'.arg
       /\ IF Len(filteredVideos) < last'.arg * PAGE_LIMIT /\ nextCursor # Null
          THEN /\ Len(inflight') = Len(inflight) + 1
               /\ inflight'[Len(inflight')].kind = "walk"
               /\ inflight'[Len(inflight')].params.last_id = nextCursor
               /\ UNCHANGED <<videos, nextCursor>>
          ELSE /\ inflight' = inflight
               /\ videos' = filteredVideos
               /\ nextCursor' = nextCursor
               /\ Shown' = BufferPage(videos', last'.arg)
  /\ Took("WalkNext") \/ Took("WalkDone") =>
       LET req == TheRequest
           res == ServerList(db, req.params, TRUE)
           all == req.pre \o req.got \o res.data
       IN IF Len(all) < req.target * PAGE_LIMIT /\ res.next_cursor # Null
          THEN /\ Took("WalkNext")
               /\ Len(inflight') = Len(inflight)
               /\ inflight'[Len(inflight')].kind = "walk"
               /\ inflight'[Len(inflight')].params.last_id = res.next_cursor
               /\ UNCHANGED <<videos, nextCursor>>
          ELSE /\ Took("WalkDone")
               /\ Len(inflight') = Len(inflight) - 1
               /\ videos' = all
               /\ nextCursor' = res.next_cursor
               /\ shows(req) => Shown' = BufferPage(all, req.target)

Always(req) == TRUE
StillOnTarget(req) == page = req.target /\ SameQuery(req)

\* C6 as stated: an accepted page change with no failing request asks for
\* batch after batch, each with the cursor of the previous response (first
\* the stored nextCursor), until the buffer has targetPage * PAGE_LIMIT
\* records or the cursor is null; then videos is the displayed list of before
\* the walk followed by the batches, nextCursor the last cursor, and the
\* displayed rows are the target page's positions of the buffer.
C6_WalkShowsTargetPage == [][WalkClaim(Always)]_vars

\* C6 amended: the same, the displayed rows being the target page's
\* positions of the buffer when, as the walk ends, page is still targetPage
\* and the query (searchText, searchField, filters) is the one the walk
\* started with; otherwise they are the slice of the current page of the
\* buffer as the active query filters it.
C6_WalkBuffersUntilTarget ==
  [][/\ WalkClaim(StillOnTarget)
     /\ Took("WalkDone") => Shown' = PageSlice(filteredVideos', page)]_vars

\* a walk from page 1 to page 3 has ended after two batches
C6_Witness ==
  /\ last.op = "WalkDone"
  /\ Len(hist) = 1
  /\ hist[1] = Act("handlePageChange", 3)
  /\ ~failed
  /\ page = 3
  /\ Len(videos) = Len(InitDb)
  /\ nextCursor = Null
  /\ Len(Shown) = 1
  /\ Shown[1]._id = Len(InitDb)

\* ------------------------------------------------------------------- C7
\* C7 as stated: when a request of a walk fails, the walk sends no further
\* request, page is targetPage, videos and nextCursor are what they were
\* before the walk started, and loading is false.
C7_FailedWalkLeavesStartState ==
  [][Took("WalkFail") =>
       /\ Len(inflight') = Len(inflight) - 1
       /\ page' = TheRequest.target
       /\ videos' = TheRequest.v0
       /\ nextCursor' = TheRequest.c0
       /\ loading' = FALSE]_vars

\* nothing but the walk has run since it started: no request was in flight
\* then and no user event came after
WalkRanAlone(req) == req.others = 0 /\ Len(hist) = req.started

\* C7 amended: when a request of a walk fails, the walk sends no further
\* request and stores nothing: the failure leaves page, videos and
\* nextCursor as they are and sets loading to false.  page is targetPage and
\* videos and nextCursor are what they were before the walk started when
\* nothing else ran during the walk; a Reset, another page change or the
\* response of another request during the walk leaves its own values.
C7_FailedWalkStoresNothing ==
  [][Took("WalkFail") =>
       /\ Len(inflight') = Len(inflight) - 1
       /\ \A n \in 1..Len(inflight') : inflight'[n] \in {inflight[m] : m \in 1..Len(inflight)}
       /\ UNCHANGED <<page, videos, nextCursor>>
       /\ loading' = FALSE
       /\ WalkRanAlone(TheRequest) =>
            /\ page' = TheRequest.target
            /\ videos' = TheRequest.v0
            /\ nextCursor' = TheRequest.c0]_vars

\* a walk to page 3 has failed: page is 3, the first page is still stored
C7_Witness ==
  /\ last.op = "WalkFail"
  /\ Len(hist) = 1
  /\ hist[1] = Act("handlePageChange", 3)
  /\ inflight = <<>>
  /\ page = 3
  /\ Len(videos) = PAGE_LIMIT
  /\ nextCursor = videos[PAGE_LIMIT]._id
  /\ ~loading

\* ------------------------------------------------------------------- C9
\* C9: a successful update of record i keeps the length and order of videos,
\* gives every record of identifier i the submitted value of each form field
\* and keeps its other keys, and leaves every other record as it was; a
\* failed create or update leaves videos as it was and closes no modal.
C9_UpdatePatchesInPlace ==
  [][/\ Took("PutOk") =>
          /\ Len(videos') = Len(videos)
          /\ \A n \in 1..Len(videos) :
               IF videos[n]._id = TheRequest.id
               THEN /\ DOMAIN videos'[n] = DOMAIN videos[n]
                    /\ \A k \in FIELDS : videos'[n][k] = TheRequest.form[k]
                    /\ \A k \in DOMAIN videos[n] \ FIELDS :
                         videos'[n][k] = videos[n][k]
               ELSE videos'[n] = videos[n]
     /\ Took("SaveFail") =>
          /\ videos' = videos
          /\ showAddModal' = showAddModal
          /\ showEditModal' = showEditModal]_vars

\* the view count of the second row has been edited and saved
C9_Witness ==
  /\ last.op = "PutOk"
  /\ Len(videos) = PAGE_LIMIT
  /\ videos[1] = InitDb[1]
  /\ videos[2]._id = 2
  /\ videos[2].viewCount = <<"7">>
  /\ videos[2].title = InitDb[2].title
  /\ ~showEditModal

\* ------------------------------------------------------------------ C10
AnyFieldQuery == searchField = "search" /\ trim(searchText) # <<>>

\* C10 as stated: with the any-field option and a non-blank query the
\* matched document count is filterCounts.totalDocs, whatever wrote
\* filterCounts last.
C10_CountIsTotalDocs ==
  AnyFieldQuery => matchedDocumentCount = filterCounts.totalDocs

\* C10 amended: with the any-field option and a non-blank query the matched
\* document count is filterCounts.totalDocs when filterCounts has that key,
\* and 0 when it has not (a list response without filter_counts leaves
\* filterCounts empty).
C10_CountIsTotalDocsOrZero ==
  AnyFieldQuery =>
    matchedDocumentCount =
      (IF filterCounts.totalDocs = Undefined THEN 0 ELSE filterCounts.totalDocs)

\* the any-field query A is active and the backend's counts are stored: four
\* records match in some field, two in the title
C10_Witness ==
  /\ AnyFieldQuery
  /\ inflight = <<>>
  /\ filterCounts.totalDocs = 4
  /\ filterCounts.titleDocs = 2
  /\ matchedDocumentCount = 4

\* ----------------------------------------------------------------- C11
\* position k of s lies in a substring that starts with "<", ends with ">"
\* and has no ">" in between
InTag(s, k) ==
  \E i \in 1..k, j \in k..Len(s) :
    /\ i < j
    /\ s[i] = "<"
    /\ s[j] = ">"
    /\ \A m \in (i + 1)..(j - 1) : s[m] # ">"

\* s without the positions that lie in such a substring, the rest in order
TagFree(s) ==
  LET kept == {k \in 1..Len(s) : ~InTag(s, k)}
      nth(n) == CHOOSE k \in kept : Cardinality({m \in kept : m < k}) = n - 1
  IN  [n \in 1..Cardinality(kept) |-> s[nth(n)]]

\* the positions where a maximal run of non-white-space characters starts
RunStarts(t) ==
  {k \in 1..Len(t) : ~IsSpace(t[k]) /\ (k = 1 \/ IsSpace(t[k - 1]))}

\* C11: for any editor content, the character count is the length of the
\* content after deleting every substring of the form "<" ... ">" (no ">"
\* inside), and the word count is the number of maximal non-white-space
\* runs of that stripped text; <p>Hello world</p> gives 2 words and 11
\* characters.
C11_CountsOfStrippedText ==
  /\ charCount = Len(TagFree(content))
  /\ wordCount = Cardinality(RunStarts(TagFree(content)))
  /\ content = Fixture => wordCount = 2 /\ charCount = 11

\* the editor holds the fixture and shows 2 words, 11 characters
C11_Witness ==
  /\ content = Fixture
  /\ wordCount = 2
  /\ charCount = 11

\* ----------------------------------------------------------------- C12
\* C12: in every reachable state, after any sequence of list fetches, Apply,
\* Reset, filter changes and page changes, the current page number is at
\* least 1 and at most totalPages.
C12_PageWithinTotalPages ==
  /\ 1 <= page
  /\ page <= totalPages

====
